---- MODULE Spec2Model ----
(***************************************************************************)
(* Model of the codeflash diagnostic engine: CostAnalyzer                  *)
(* (src/codeflash/cost_analyzer.py) and CodeOptimizer                      *)
(* (src/codeflash/optimizer.py).                                           *)
(*                                                                         *)
(* A source unit is either unparseable (ast.parse raises SyntaxError) or a *)
(* syntax tree.  A tree is a sequence of nodes in document (pre-) order;   *)
(* node 0 is the ast.Module root and is not stored.  Each node carries the *)
(* fields the rules read: its class (kind), lineno (line), its parent, the *)
(* alias names / module of an import (names, each a dotted path given as   *)
(* its sequence of segments), the operators of a Compare (ops) and the     *)
(* operator of an AugAssign (op).                                          *)
(***************************************************************************)
EXTENDS Integers, Sequences, FiniteSets, TLC

\* ------------------------------------------------------------------ bounds
MaxNodes == 2    \* syntax nodes (below the Module root) of a unit analysed alone
BatchNodes == 1  \* syntax nodes in all units of a batch of several non-empty units
MaxFiles == 2    \* *.py files in the analysed directory
MaxCalls == 2   \* calls of analyze() on one analyzer object

\* ------------------------------------------------------------- file names
FileNames == <<"a.py", "b.py", "c.py", "d.py">>
Files == {FileNames[i] : i \in 1..MaxFiles}
Dir == "."
Missing == "missing"
None == "None"

\* String order of the unit identifiers (str(file_path)), as Python's
\* comparison of the strings "a.py" < "b.py" < ... gives it.
FileRank(f) == CHOOSE i \in 1..Len(FileNames) : FileNames[i] = f

\* ------------------------------------------------------------ syntax trees
StmtContainers == {"For", "While", "FunctionDef"}
ExprKinds == {"ListComp", "Compare"}

Lab(k, n, o, a) == [kind |-> k, names |-> n, ops |-> o, op |-> a]

\* The node shapes the inputs are drawn from.
Labels ==
    { Lab("Import", <<<<"os">>>>, <<>>, ""),
      Lab("Import", <<<<"pandas", "io">>, <<"numpy">>>>, <<>>, ""),
      Lab("ImportFrom", <<<<"pandas", "io">>>>, <<>>, ""),
      Lab("ImportFrom", <<>>, <<>>, ""),
      Lab("ListComp", <<>>, <<>>, ""),
      Lab("Compare", <<>>, <<"In">>, ""),
      Lab("Compare", <<>>, <<"In", "NotIn", "In">>, ""),
      Lab("For", <<>>, <<>>, ""),
      Lab("While", <<>>, <<>>, ""),
      Lab("FunctionDef", <<>>, <<>>, ""),
      Lab("AugAssign", <<>>, <<>>, "Add"),
      Lab("AugAssign", <<>>, <<>>, "Sub") }

Node(lab, p, l) ==
    [kind |-> lab.kind, names |-> lab.names, ops |-> lab.ops, op |-> lab.op,
     parent |-> p, line |-> l]

RECURSIVE IsAncestorOrSelf(_, _, _)
IsAncestorOrSelf(t, a, i) ==
    IF i = a THEN TRUE
    ELSE IF i = 0 THEN FALSE
    ELSE IsAncestorOrSelf(t, a, t[i].parent)

\* A new last node of t (document order) may hang below the Module or below
\* any container on the path from the previous node to the root.
CanParent(t, p, lab) ==
    \/ p = 0
    \/ /\ p \in 1..Len(t)
       /\ IsAncestorOrSelf(t, p, Len(t))
       /\ \/ t[p].kind \in StmtContainers
          \/ t[p].kind = "ListComp" /\ lab.kind \in ExprKinds

\* Statements start a new line; an expression may share the line of the
\* node before it (two comprehensions in one statement).
CanLine(t, lab, l) ==
    IF t = <<>> THEN l = 1
    ELSE \/ l = t[Len(t)].line + 1
         \/ l = t[Len(t)].line /\ lab.kind \in ExprKinds

\* All trees of exactly n nodes, built node by node in document order.
TreesOf[n \in 0..MaxNodes] ==
    IF n = 0 THEN {<<>>}
    ELSE { Append(x[1], Node(x[2], x[3], x[4])) :
             x \in { y \in TreesOf[n - 1] \X Labels \X (0..(n - 1)) \X (1..n) :
                       CanParent(y[1], y[3], y[2]) /\ CanLine(y[1], y[2], y[4]) } }

\* A unit: parsed (ok) with its tree, or unparseable (ast.parse raises).
BadUnit == [ok |-> FALSE, tree |-> <<>>]
UnitsOf[n \in 0..MaxNodes] ==
    { [ok |-> TRUE, tree |-> t] : t \in TreesOf[n] }
        \cup (IF n = 0 THEN {BadUnit} ELSE {})

EmptyUnit == [ok |-> TRUE, tree |-> <<>>]

\* The file sets, each a function from Files to units.
\* BatchSeqs[k][b]: the first k files hold units of exactly b nodes in all.
BatchSeqs[k \in 0..MaxFiles] ==
    [b \in 0..BatchNodes |->
        IF k = 0 THEN (IF b = 0 THEN {<<>>} ELSE {})
        ELSE UNION { { Append(x[1], x[2]) :
                         x \in BatchSeqs[k - 1][b - n] \X UnitsOf[IF n <= MaxNodes THEN n ELSE 0] } :
                       n \in { m \in 0..b : m <= MaxNodes } }]

\* Batches: every file holds a unit, parsed or not, BatchNodes nodes in all.
BatchFileSystems ==
    { [f \in Files |-> s[FileRank(f)]] :
        s \in UNION { BatchSeqs[MaxFiles][b] : b \in 0..BatchNodes } }

\* One unit of up to MaxNodes nodes in the first file, beside empty files.
UnitFileSystems ==
    { [f \in Files |-> IF f = FileNames[1] THEN u ELSE EmptyUnit] :
        u \in UNION { UnitsOf[n] : n \in 0..MaxNodes } }

\* ------------------------------------------------------------- ast.walk
KindOf(tree, i) == IF i = 0 THEN "Module" ELSE tree[i].kind

\* ast.iter_child_nodes: the children of node i in source order.
Children(tree, i) ==
    SelectSeq([j \in 1..Len(tree) |-> j], LAMBDA j : tree[j].parent = i)

\* ast.walk(node): breadth-first from node, the node itself first
\* (todo = deque([node]); popleft; extend(iter_child_nodes)).
RECURSIVE WalkFrom(_, _, _)
WalkFrom(tree, todo, out) ==
    IF todo = <<>> THEN out
    ELSE WalkFrom(tree, Tail(todo) \o Children(tree, Head(todo)), Append(out, Head(todo)))

Walk(tree, node) == WalkFrom(tree, <<node>>, <<>>)

\* The concatenation of F over the elements of a sequence, in order: the
\* appends a loop body makes, iteration after iteration.
FlatMap(seq, F(_)) ==
    LET acc[i \in 0..Len(seq)] == IF i = 0 THEN <<>> ELSE acc[i - 1] \o F(seq[i])
    IN acc[Len(seq)]

\* ---------------------------------------------------------- CostAnalyzer
\* self.heavy_libraries: weight and alternatives of each key.
heavy_libraries ==
    [pandas |-> [weight |-> "heavy",
                 alternatives |-> <<"csv (stdlib)", "polars (lighter & faster)">>],
     numpy |-> [weight |-> "medium",
                alternatives |-> <<"array (stdlib) for simple arrays">>],
     requests |-> [weight |-> "medium",
                   alternatives |-> <<"urllib (stdlib) for simple HTTP requests">>]]

\* sep.join(parts), as the sequence of its pieces.
RECURSIVE Join(_, _)
Join(sep, parts) ==
    IF parts = <<>> THEN <<>>
    ELSE IF Len(parts) = 1 THEN <<parts[1]>>
    ELSE <<parts[1], sep>> \o Join(sep, Tail(parts))

\* lib_name.split('.')[0] of a dotted path held as its segments.
BaseLib(lib_name) == Head(lib_name)

\* _check_library_usage reporting the imported name's last segment as the
\* library instead of its first.
_check_library_usage_leaf(lib_name, line_no, file_path) ==
    LET base_lib == BaseLib(lib_name)
    IN IF base_lib \in DOMAIN heavy_libraries
       THEN << [file |-> file_path,
                line |-> line_no,
                issue |-> <<"Heavy import: ">> \o Join(".", lib_name),
                impact |-> <<"Increases memory footprint and cold-start time (Library is ",
                             heavy_libraries[base_lib].weight, ")">>,
                suggestion |-> <<"Consider lighter alternatives: ">>
                                  \o Join(", ", heavy_libraries[base_lib].alternatives),
                type |-> "import_optimization",
                library |-> lib_name[Len(lib_name)]] >>
       ELSE <<>>

_check_library_usage(lib_name, line_no, file_path) ==
    LET base_lib == BaseLib(lib_name)
    IN IF base_lib \in DOMAIN heavy_libraries
       THEN << [file |-> file_path,
                line |-> line_no,
                issue |-> <<"Heavy import: ">> \o Join(".", lib_name),
                impact |-> <<"Increases memory footprint and cold-start time (Library is ",
                             heavy_libraries[base_lib].weight, ")">>,
                suggestion |-> <<"Consider lighter alternatives: ">>
                                  \o Join(", ", heavy_libraries[base_lib].alternatives),
                type |-> "import_optimization",
                library |-> base_lib] >>
       ELSE <<>>

_check_imports(tree, file_path) ==
    LET visit(i) ==
          IF KindOf(tree, i) = "Import"
          THEN LET alias(name) == _check_library_usage(name, tree[i].line, file_path)
               IN FlatMap(tree[i].names, alias)
          ELSE IF KindOf(tree, i) = "ImportFrom" /\ tree[i].names # <<>>
          THEN _check_library_usage(tree[i].names[1], tree[i].line, file_path)
          ELSE <<>>
    IN FlatMap(Walk(tree, 0), visit)

\* _check_data_structures looking at the statements of the module only,
\* not walking into them.
_check_data_structures_top(tree, file_path) ==
    LET visit(i) ==
          IF KindOf(tree, i) = "ListComp"
          THEN << [file |-> file_path,
                   line |-> tree[i].line,
                   issue |-> <<"List comprehension could be a generator">>,
                   impact |-> <<"Stores entire list in memory (O(n) space)">>,
                   suggestion |-> <<"Use generator expression () instead of [] if only iterating once">>,
                   type |-> "data_structure"] >>
          ELSE <<>>
    IN FlatMap(Children(tree, 0), visit)

_check_data_structures(tree, file_path) ==
    LET visit(i) ==
          IF KindOf(tree, i) = "ListComp"
          THEN << [file |-> file_path,
                   line |-> tree[i].line,
                   issue |-> <<"List comprehension could be a generator">>,
                   impact |-> <<"Stores entire list in memory (O(n) space)">>,
                   suggestion |-> <<"Use generator expression () instead of [] if only iterating once">>,
                   type |-> "data_structure"] >>
          ELSE <<>>   \* a Compare with an In operator: pass
    IN FlatMap(Walk(tree, 0), visit)

_check_memory_patterns(tree, file_path) ==
    LET inner(c) ==
          IF KindOf(tree, c) = "AugAssign" /\ tree[c].op = "Add"
          THEN << [file |-> file_path,
                   line |-> tree[c].line,
                   issue |-> <<"Potential string concatenation in loop">>,
                   impact |-> <<"Creates new string objects each iteration (O(n^2) memory)">>,
                   suggestion |-> <<"Use list.append() and \"\".join() for better memory efficiency">>,
                   type |-> "memory_pattern"] >>
          ELSE <<>>
        visit(i) ==
          IF KindOf(tree, i) = "For" THEN FlatMap(Walk(tree, i), inner) ELSE <<>>
    IN FlatMap(Walk(tree, 0), visit)

\* CostAnalyzer._analyze_file: what one unit appends to self.results.  The
\* SyntaxError of ast.parse is raised before any rule runs and is swallowed.
CostAnalyzeFile(unit, file_path) ==
    IF ~unit.ok THEN <<>>
    ELSE _check_imports(unit.tree, file_path)
           \o _check_data_structures(unit.tree, file_path)
           \o _check_memory_patterns(unit.tree, file_path)

\* ---------------------------------------------------------- CodeOptimizer
_check_speed_optimizations(tree, file_path) ==
    LET visit(i) ==
          IF KindOf(tree, i) = "Compare"
          THEN LET each(o) ==
                     IF o = "In"
                     THEN << [file |-> file_path,
                              line |-> tree[i].line,
                              issue |-> <<"List membership test (O(n) complexity)">>,
                              impact |-> <<"Slower lookups for large lists">>,
                              suggestion |-> <<"Convert to set for O(1) lookup if checking membership frequently">>,
                              type |-> "speed"] >>
                     ELSE <<>>
               IN FlatMap(tree[i].ops, each)
          ELSE <<>>
    IN FlatMap(Walk(tree, 0), visit)

_check_memory_optimizations(tree, file_path) ==
    LET visit(i) ==
          IF KindOf(tree, i) = "ListComp"
          THEN << [file |-> file_path,
                   line |-> tree[i].line,
                   issue |-> <<"List comprehension stores all items in memory">>,
                   impact |-> <<"High memory usage for large datasets">>,
                   suggestion |-> <<"Use generator expression if items are processed once">>,
                   type |-> "memory"] >>
          ELSE <<>>
    IN FlatMap(Walk(tree, 0), visit)

\* _analyze_file with the goal test lost: the speed rule runs under every
\* goal.
OptimizerAnalyzeFileAnyGoal(goal, unit, file_path) ==
    IF ~unit.ok THEN <<>>
    ELSE IF goal = "memory"
    THEN _check_speed_optimizations(unit.tree, file_path)
           \o _check_memory_optimizations(unit.tree, file_path)
    ELSE _check_speed_optimizations(unit.tree, file_path)

\* CodeOptimizer._analyze_file: any goal other than speed and memory runs
\* no rule.
OptimizerAnalyzeFile(goal, unit, file_path) ==
    IF ~unit.ok THEN <<>>
    ELSE IF goal = "speed" THEN _check_speed_optimizations(unit.tree, file_path)
    ELSE IF goal = "memory" THEN _check_memory_optimizations(unit.tree, file_path)
    ELSE <<>>

\* _analyze_file of either class.
AnalyzeFile(a, unit, file_path) ==
    IF a.cls = "CostAnalyzer" THEN CostAnalyzeFile(unit, file_path)
    ELSE OptimizerAnalyzeFile(a.goal, unit, file_path)

\* ------------------------------------------------------------------ state
VARIABLES
    fs,        \* the files on disk: file name -> unit
    analyzer,  \* the analyzer object: cls, goal, path, results; or NoAnalyzer
    returned,  \* the lists analyze() returned so far, as they were on return
               \* (every call returns the one list object self.results)
    order,     \* the order in which the last analyze() visited the files
    applied,   \* <<n>>: the last apply_optimizations() returned n; <<>> before
    handed     \* the results list the last apply_optimizations() was handed

vars == <<fs, analyzer, returned, order, applied, handed>>

NoAnalyzer == [cls |-> None, goal |-> None, path |-> None, results |-> <<>>]

Paths == {Dir, FileNames[1], Missing}
OptimizerGoals == {"speed", "memory", "size"}

RECURSIVE Perms(_)
Perms(S) ==
    IF S = {} THEN {<<>>}
    ELSE UNION { { <<f>> \o p : p \in Perms(S \ {f}) } : f \in S }

\* The files analyze() visits: the file itself (is_file), the *.py files
\* below a directory in the order rglob yields them (is_dir), else none.
VisitOrders(path) ==
    IF path \in Files THEN {<<path>>}
    ELSE IF path = Dir THEN Perms(Files)
    ELSE {<<>>}

\* AnalyzeFiles with the SyntaxError escaping _analyze_file: the loop of
\* analyze() ends at the first unparseable unit.
RECURSIVE AnalyzeFilesAbort(_, _, _)
AnalyzeFilesAbort(a, files, ord) ==
    IF ord = <<>> \/ ~files[Head(ord)].ok THEN <<>>
    ELSE AnalyzeFile(a, files[Head(ord)], Head(ord)) \o AnalyzeFilesAbort(a, files, Tail(ord))

\* The appends of one analyze() call that visits the files in order ord.
AnalyzeFiles(a, files, ord) ==
    LET one(f) == AnalyzeFile(a, files[f], f)
    IN FlatMap(ord, one)

\* A batch of files on disk, no analyzer constructed yet.
Init ==
    /\ fs \in BatchFileSystems
    /\ analyzer = NoAnalyzer
    /\ returned = <<>>
    /\ order = <<>>
    /\ applied = <<>>
    /\ handed = <<>>

\* One unit on disk beside empty files, no analyzer constructed yet.
InitUnit ==
    /\ fs \in UnitFileSystems
    /\ analyzer = NoAnalyzer
    /\ returned = <<>>
    /\ order = <<>>
    /\ applied = <<>>
    /\ handed = <<>>

\* CostAnalyzer(path)
NewCostAnalyzer(path) ==
    /\ analyzer = NoAnalyzer
    /\ analyzer' = [cls |-> "CostAnalyzer", goal |-> "cost", path |-> path, results |-> <<>>]
    /\ UNCHANGED <<fs, returned, order, applied, handed>>

\* CodeOptimizer(path, goal)
NewCodeOptimizer(path, goal) ==
    /\ analyzer = NoAnalyzer
    /\ analyzer' = [cls |-> "CodeOptimizer", goal |-> goal, path |-> path, results |-> <<>>]
    /\ UNCHANGED <<fs, returned, order, applied, handed>>

\* analyzer.analyze(): every visited file appends to self.results, and
\* self.results is returned.
Analyze(ord) ==
    /\ analyzer # NoAnalyzer
    /\ Len(returned) < MaxCalls
    /\ analyzer' = [analyzer EXCEPT !.results = @ \o AnalyzeFiles(analyzer, fs, ord)]
    /\ returned' = Append(returned, analyzer'.results)
    /\ order' = ord
    /\ UNCHANGED <<fs, applied, handed>>

\* The files in the order of their names.
SortedFiles == [i \in 1..MaxFiles |-> FileNames[i]]

\* The lists a caller may hand to apply_optimizations: what this analyzer
\* returned, or what an analyzer of either class returns for these files.
ResultLists ==
    {analyzer.results}
        \cup { AnalyzeFiles([cls |-> "CostAnalyzer", goal |-> "cost"], fs, SortedFiles) }
        \cup { AnalyzeFiles([cls |-> "CodeOptimizer", goal |-> g], fs, SortedFiles) :
                 g \in {"speed", "memory"} }

\* The (file, line) places a results list names.
PlacesOf(results) == { <<results[i].file, results[i].line>> : i \in 1..Len(results) }

\* CostAnalyzer.apply_optimizations: counts the data_structure diagnostics
\* whose line exists and holds both '[' and ']'; writes nothing back.
\* bracketed: the (file, line) places whose text holds both brackets.  Every
\* line a results list of these files names exists (line_idx < len(lines)).
CostApplyCount(results, bracketed) ==
    LET hit(r) == IF r.type = "data_structure" /\ <<r.file, r.line>> \in bracketed
                  THEN <<r>> ELSE <<>>
    IN Len(FlatMap(results, hit))

\* CodeOptimizer.apply_optimizations: return len(results).
OptimizerApplyCount(results) == Len(results)

ApplyCount(a, results, bracketed) ==
    IF a.cls = "CostAnalyzer" THEN CostApplyCount(results, bracketed)
    ELSE OptimizerApplyCount(results)

\* What apply_optimizations leaves on disk: CostAnalyzer reads the files and
\* its write-back is commented out; CodeOptimizer touches no file.
FilesAfterApply(files, results) == files

\* analyzer.apply_optimizations(results)
Apply(results, bracketed) ==
    /\ analyzer # NoAnalyzer
    /\ applied' = <<ApplyCount(analyzer, results, bracketed)>>
    /\ handed' = results
    /\ fs' = FilesAfterApply(fs, results)
    /\ UNCHANGED <<analyzer, returned, order>>

\* Construction and analysis.
NextAnalysis ==
    \/ \E p \in Paths : NewCostAnalyzer(p)
    \/ \E p \in Paths, g \in OptimizerGoals : NewCodeOptimizer(p, g)
    \/ \E ord \in VisitOrders(analyzer.path) : Analyze(ord)

Next ==
    \/ NextAnalysis
    \/ \E rs \in ResultLists : \E br \in SUBSET PlacesOf(rs) : Apply(rs, br)

\* A batch of files; analyzers are constructed, run and asked to apply.
Spec == Init /\ [][Next]_vars

\* A batch of files; analyzers are constructed and run.
SpecBatch == Init /\ [][NextAnalysis]_vars

\* One unit; analyzers are constructed and run.
SpecUnit == InitUnit /\ [][NextAnalysis]_vars

\* ---------------------------------------------------------------- helpers
Calls == Len(returned)
Last == returned[Calls]
\* self.results as the last call found it.
Before == IF Calls >= 2 THEN returned[Calls - 1] ELSE <<>>
\* The units the last call visited that failed to parse, and the rest.
Failed == { f \in Files : (\E i \in 1..Len(order) : order[i] = f) /\ ~fs[f].ok }
Without(ord, S) == SelectSeq(ord, LAMBDA f : f \notin S)
OfFile(results, f) == SelectSeq(results, LAMBDA r : r.file = f)
OfType(results, t) == SelectSeq(results, LAMBDA r : r.type = t)

\* C1: a unit that fails to parse adds no diagnostic to the list analyze()
\* returns, and the list is the one the same call returns for the batch
\* without the failing units: every other unit adds exactly its own
\* diagnostics, wherever the failing unit sits in the visiting order.
C1_SyntaxErrorIsolated ==
    Calls >= 1 =>
        /\ \A f \in Failed : \A i \in 1..Len(Last) : Last[i].file # f
        /\ Last = Before \o AnalyzeFiles(analyzer, fs, Without(order, Failed))
        /\ Calls = 1 =>
              \A f \in Files \ Failed :
                  OfFile(Last, f) =
                      IF \E i \in 1..Len(order) : order[i] = f
                      THEN AnalyzeFile(analyzer, fs[f], f) ELSE <<>>

\* A failing unit is visited first and a later unit still reports.
C1_Witness ==
    /\ Calls = 1
    /\ Len(order) >= 2
    /\ order[1] \in Failed
    /\ Last # <<>>

\* Identity of a diagnostic: (source unit, line, rule identifier = type).
Identity(r) == <<r.file, r.line, r.type>>

\* C2: no two diagnostics of a list returned by analyze() share their
\* identity (source unit, line number, type).
C2_NoDuplicateIdentity ==
    \A k \in 1..Calls : \A i, j \in 1..Len(returned[k]) :
        i # j => Identity(returned[k][i]) # Identity(returned[k][j])

\* C3: a second analyze() on the same analyzer, no file changed, returns
\* the list the first call returned.
C3_SecondRunEqualsFirst ==
    Calls >= 2 => returned[2] = returned[1]

\* Python's string order of the type tags.
TypeRank(t) ==
    CASE t = "data_structure" -> 1
      [] t = "import_optimization" -> 2
      [] t = "memory" -> 3
      [] t = "memory_pattern" -> 4
      [] t = "speed" -> 5

\* (file, line, type) of r is at most that of q.
KeyLeq(r, q) ==
    \/ FileRank(r.file) < FileRank(q.file)
    \/ /\ r.file = q.file
       /\ \/ r.line < q.line
          \/ r.line = q.line /\ TypeRank(r.type) <= TypeRank(q.type)

\* C4: every list analyze() returns is ascending by (source unit, line),
\* ties broken by the type tag.
C4_ReturnedSorted ==
    \A k \in 1..Calls : \A i \in 1..(Len(returned[k]) - 1) :
        KeyLeq(returned[k][i], returned[k][i + 1])

\* What the caller of analyze() can observe: the returned list and the
\* attributes of the analyzer object.
Observable(a, list) == <<a.cls, a.goal, a.path, a.results, list>>

\* C5: a run that skipped a unit is distinguishable, by what its caller
\* can observe, from the same run over the batch without that unit.
C5_SkipObservable ==
    Calls >= 1 =>
        \A f \in Failed :
            Observable(analyzer, Last) #
                LET list == Before \o AnalyzeFiles(analyzer, fs, Without(order, {f}))
                IN Observable([analyzer EXCEPT !.results = list], list)

\* The nodes of the tree of file f.
NodesOf(f) == 1..Len(fs[f].tree)
\* The diagnostics of type t the list holds for line l of file f.
At(results, f, l, t) ==
    SelectSeq(results, LAMBDA r : r.file = f /\ r.line = l /\ r.type = t)
\* The files the last call visited.
Visited == { order[i] : i \in 1..Len(order) }
\* An import statement names a heavy module: the first segment of a path
\* it imports is a key of the table.
IsHeavyImport(n) ==
    /\ n.kind \in {"Import", "ImportFrom"}
    /\ \E i \in 1..Len(n.names) : Head(n.names[i]) \in DOMAIN heavy_libraries

\* C6: under the cost goal every import statement that names a heavy
\* module yields exactly one import_optimization diagnostic, every other
\* import statement none, and 'library' is the first segment of the path.
C6_OnePerImportStatement ==
    (Calls = 1 /\ analyzer.cls = "CostAnalyzer") =>
        \A f \in Visited : \A i \in NodesOf(f) :
            LET n == fs[f].tree[i]
                ds == At(Last, f, n.line, "import_optimization")
            IN n.kind \in {"Import", "ImportFrom"} =>
                 /\ Len(ds) = (IF IsHeavyImport(n) THEN 1 ELSE 0)
                 /\ \A d \in 1..Len(ds) :
                        \E j \in 1..Len(n.names) : ds[d].library = Head(n.names[j])

\* C7: under the cost goal an additive augmented assignment yields exactly
\* one memory_pattern diagnostic, at its own line, when its parent is a
\* loop (for or while), and none otherwise.
C7_OnePerLoopAugAssign ==
    (Calls = 1 /\ analyzer.cls = "CostAnalyzer") =>
        \A f \in Visited : \A i \in NodesOf(f) :
            LET n == fs[f].tree[i]
            IN (n.kind = "AugAssign" /\ n.op = "Add") =>
                 Len(At(Last, f, n.line, "memory_pattern")) =
                     (IF KindOf(fs[f].tree, n.parent) \in {"For", "While"} THEN 1 ELSE 0)

\* The type tag the eager-collection rule gives under the analyzer's goal.
EagerType == IF analyzer.cls = "CostAnalyzer" THEN "data_structure" ELSE "memory"
RunsEagerRule == analyzer.cls = "CostAnalyzer" \/ analyzer.goal = "memory"
Comps(f) == { i \in NodesOf(f) : fs[f].tree[i].kind = "ListComp" }
CompsAt(f, l) == { i \in Comps(f) : fs[f].tree[i].line = l }
Lines(f) == { fs[f].tree[i].line : i \in NodesOf(f) }
Eager(f) == OfType(OfFile(Last, f), EagerType)

\* One diagnostic per comprehension, each at the line of its comprehension.
OnePerComp(f) ==
    /\ Len(Eager(f)) = Cardinality(Comps(f))
    /\ \A r \in 1..Len(Eager(f)) : Eager(f)[r].line \in Lines(f)
    /\ \A l \in Lines(f) :
           Len(At(Last, f, l, EagerType)) = Cardinality(CompsAt(f, l))

InTests(f, l) ==
    UNION { { <<i, o>> : o \in { k \in 1..Len(fs[f].tree[i].ops) : fs[f].tree[i].ops[k] = "In" } } :
              i \in { j \in NodesOf(f) : fs[f].tree[j].kind = "Compare" /\ fs[f].tree[j].line = l } }

ValidGoal == analyzer.cls = "CostAnalyzer" \/ analyzer.goal \in {"speed", "memory"}

\* The types of the rules that belong to the analyzer's goal.
GoalTypes ==
    IF analyzer.cls = "CostAnalyzer"
    THEN {"import_optimization", "data_structure", "memory_pattern"}
    ELSE {analyzer.goal}

\* The membership-test rule reports every containment test under the speed
\* goal and nothing under the other goals, and a goal returns the
\* diagnostics of its own rules only.
GoalFilter ==
    \A f \in Visited :
        /\ \A l \in Lines(f) :
               Len(At(Last, f, l, "speed")) =
                   (IF analyzer.goal = "speed" THEN Cardinality(InTests(f, l)) ELSE 0)
        /\ \A r \in 1..Len(Last) : Last[r].type \in GoalTypes
        /\ analyzer.goal = "memory" =>
               Len(Last) = Cardinality(UNION { { <<g, i>> : i \in Comps(g) } : g \in Visited })
        /\ analyzer.goal = "speed" =>
               Len(Last) = Cardinality(UNION { { <<g, t>> : t \in UNION { InTests(g, l) : l \in Lines(g) } } :
                                     g \in Visited })

PlaceSeq(results) == [r \in 1..Len(results) |-> <<results[r].file, results[r].line>>]

Actionable(results) ==
    SelectSeq(results, LAMBDA r : r.type \notin {"import_optimization", "memory_pattern"})

\* C10: apply_optimizations leaves every file as it was, and the count it
\* returns is at most the number of diagnostics handed to it and counts no
\* import_optimization and no memory_pattern diagnostic.
C10_ApplyCountsOnlyActionable ==
    [][ /\ fs' = fs
        /\ applied' # <<>> =>
               /\ applied'[1] <= Len(handed')
               /\ applied'[1] <= Len(Actionable(handed')) ]_vars

\* ------------------------------------------------------------ command line
\* click.Choice(['speed', 'cost', 'memory']) of --goal.
CliGoals == {"speed", "cost", "memory"}

\* click.Path(exists=True) and click.Choice: the arguments the command is
\* run with; any other makes click exit with a usage error before the
\* command's body runs.
CliAccepts(path, goal) == path \in Files \cup {Dir} /\ goal \in CliGoals

\* The analyzer the optimize command constructs for a goal.
CliAnalyzer(path, goal) ==
    IF goal = "cost"
    THEN [cls |-> "CostAnalyzer", goal |-> "cost", path |-> path, results |-> <<>>]
    ELSE [cls |-> "CodeOptimizer", goal |-> goal, path |-> path, results |-> <<>>]

\* codeflash optimize PATH --goal GOAL: construct and analyze; with no
\* result, with --dry-run or with the confirmation declined (apply FALSE)
\* nothing more, else apply_optimizations(results).
CliOptimize(path, goal, ord, apply) ==
    /\ analyzer = NoAnalyzer
    /\ Len(returned) < MaxCalls
    /\ CliAccepts(path, goal)
    /\ LET a == CliAnalyzer(path, goal)
           results == AnalyzeFiles(a, fs, ord)
       IN /\ analyzer' = [a EXCEPT !.results = results]
          /\ returned' = Append(returned, results)
          /\ order' = ord
          /\ IF apply /\ results # <<>>
             THEN /\ \E bracketed \in SUBSET PlacesOf(results) :
                        applied' = <<ApplyCount(a, results, bracketed)>>
                  /\ handed' = results
                  /\ fs' = FilesAfterApply(fs, results)
             ELSE UNCHANGED <<applied, handed, fs>>

\* codeflash analyze FILE: CostAnalyzer(file).analyze().
CliAnalyze(file, ord) ==
    /\ analyzer = NoAnalyzer
    /\ Len(returned) < MaxCalls
    /\ CliAccepts(file, "cost")
    /\ LET a == CliAnalyzer(file, "cost")
           results == AnalyzeFiles(a, fs, ord)
       IN /\ analyzer' = [a EXCEPT !.results = results]
          /\ returned' = Append(returned, results)
          /\ order' = ord
    /\ UNCHANGED <<fs, applied, handed>>

\* The ways to run the optimize command: path, goal, the order rglob
\* yields the files in, and whether the optimizations are applied.
CliRuns ==
    UNION { { <<p, g, ord, ap>> : ord \in VisitOrders(p) } :
              p \in Paths, g \in CliGoals \cup OptimizerGoals, ap \in BOOLEAN }

NextCli ==
    \/ \E r \in CliRuns : CliOptimize(r[1], r[2], r[3], r[4])
    \/ \E p \in Paths : \E ord \in VisitOrders(p) : CliAnalyze(p, ord)

\* A batch of files; analyzers are used directly or through the commands.
SpecCli == Init /\ [][Next \/ NextCli]_vars

\* The configuration of the analyzer is valid: the path is a file or a
\* directory and the goal is speed, cost or memory.
ValidConfig ==
    /\ analyzer.path \in Files \cup {Dir}
    /\ analyzer.goal \in CliGoals

\* C11: an invalid goal or an invalid path is an error before any unit is
\* analysed: no analyze() of an analyzer with an invalid goal or path
\* returns a list, at the command line and on the objects themselves.
C11_InvalidConfigRejected ==
    Calls >= 1 => ValidConfig

\* ------------------------------------------------------ diagnostic records
\* The fields every diagnostic has, and the one of import diagnostics.
CommonFields == {"file", "line", "issue", "impact", "suggestion", "type"}
FieldsOf(r) ==
    CommonFields \cup (IF r.type = "import_optimization" THEN {"library"} ELSE {})

WellFormed(r) ==
    /\ DOMAIN r = FieldsOf(r)
    /\ r.line >= 1
    /\ "library" \in DOMAIN r => r.library \in DOMAIN heavy_libraries

\* C12: every diagnostic of every list analyze() returns has the fields
\* file, line (at least 1), issue, impact, suggestion and type, and has a
\* library field exactly when its type is import_optimization, which then
\* is a key of the heavy-library table.
C12_DiagnosticShape ==
    \A c \in 1..Calls : \A i \in 1..Len(returned[c]) : WellFormed(returned[c][i])

\* A list returned holds the import diagnostic of a dotted path and a
\* diagnostic that is not an import diagnostic.
C12_Witness ==
    /\ Calls >= 1
    /\ \E i, j \in 1..Len(Last) :
           /\ Last[i].type = "import_optimization"
           /\ \E f \in Visited : \E n \in 1..Len(fs[f].tree) :
                  /\ fs[f].tree[n].kind = "Import"
                  /\ \E a \in 1..Len(fs[f].tree[n].names) :
                         /\ Len(fs[f].tree[n].names[a]) >= 2
                         /\ Head(fs[f].tree[n].names[a]) = Last[i].library
           /\ Last[j].type # "import_optimization"

====
